---------------------------- MODULE Spec2Model ----------------------------
(***************************************************************************)
(* The video job pipeline of privacyscrub-v5: the gateway creates a job,   *)
(* the orchestrator's ingest handler plans and dispatches chunks, the gpu  *)
(* worker's process-chunk handler redacts a chunk and counts it in a       *)
(* Firestore transaction, the orchestrator's stitch handler reassembles    *)
(* the chunks, and delete_job erases a job.  One job is modelled; the      *)
(* handlers run concurrently and every numbered step of a handler that     *)
(* touches the job document, the bucket or the queue is one action.        *)
(***************************************************************************)
EXTENDS Integers, Sequences, FiniteSets, TLC

\* ------------------------------------------------------------------ bounds
MaxChunks        == 3     \* longest video, in chunks, when every task is delivered once
MaxChunksAll     == 2     \* longest video, in chunks, of the whole program's runs
MaxIngestRuns    == 2     \* deliveries of the ingest task that are handled
MaxWorkers       == 3     \* deliveries of chunk tasks that are handled
MaxStitchers     == 2     \* stitch requests that are handled
MaxErasures      == 1     \* delete_job calls made for the job
MaxDigits        == 4     \* chunk indices compared have up to MaxDigits digits
LastSegment      == 100   \* seconds of video in the last chunk
MaxSeconds       == 1000  \* the planner is run on videos of 1..MaxSeconds seconds
MaxConfidenceSteps == 20  \* confidence overrides 0.00, 0.05, ... in steps of 0.05
MaxJobs          == 2     \* jobs whose chunks one worker instance processes at a time

\* --------------------------------------------------------------- constants
CHUNK_DURATION == 300
PadWidth       == 3
\* Confidence thresholds, in hundredths (0.4 is 40).
DefaultConfidence == 40
GdprFloor         == 60
HipaaFloor        == 70
CcpaFloor         == 55

\* Video lengths in seconds that make 1..n chunks: 100, 400, 700, ...
Durations(n) == { CHUNK_DURATION * (k - 1) + LastSegment : k \in 1..n }

\* The job document's status values (the strings the handlers write).
NoJob == "NONE"
Statuses == {"QUEUED", "CHUNKING", "PROCESSING", "STITCHING",
             "COMPLETED", "FAILED", "CANCELLED"}
Terminal == {"COMPLETED", "FAILED", "CANCELLED"}

\* ------------------------------------------------------------- chunk names
\* printf's %03d: the decimal digits of i, left-padded with zeros to at
\* least PadWidth digits (more digits when i needs them).
RECURSIVE Digits(_)
Digits(i) == IF i < 10 THEN <<i>> ELSE Append(Digits(i \div 10), i % 10)

RECURSIVE ZeroPad(_)
ZeroPad(ds) == IF Len(ds) >= PadWidth THEN ds ELSE ZeroPad(<<0>> \o ds)

\* %d in place of %03d: no padding.
ChunkNameUnpadded(i) == Digits(i)

ChunkName(i) == ZeroPad(Digits(i))

\* Python's str comparison on two names "chunk_<digits>.mp4": the common
\* prefix "chunk_" is equal, so the digits decide, and where one digit
\* string is a prefix of the other the next character of the shorter name
\* is "." which sorts before every digit.
RECURSIVE NameLess(_, _)
NameLess(a, b) ==
    IF a = <<>> THEN b # <<>>
    ELSE IF b = <<>> THEN FALSE
    ELSE IF Head(a) # Head(b) THEN Head(a) < Head(b)
    ELSE NameLess(Tail(a), Tail(b))

\* sorted(...) / list.sort(key=name): the ascending sequence of a set of names.
RECURSIVE SortByName(_)
SortByName(S) ==
    IF S = {} THEN <<>>
    ELSE LET m == CHOOSE x \in S : \A y \in S \ {x} : NameLess(x, y)
         IN  <<m>> \o SortByName(S \ {m})

\* ---------------------------------------------------------------- planning
\* The number of segment files ffmpeg's segment muxer writes for a source of
\* d seconds: ceil(d / CHUNK_DURATION).
SegmentCount(d) == (d + CHUNK_DURATION - 1) \div CHUNK_DURATION

\* The probed duration: the float ffprobe prints, or 0 when the probe fails.
Probed(d, probeOk) == IF probeOk THEN d ELSE 0

\* The branch taken at line 64.
BypassSplit(duration) == duration > 0 /\ duration < CHUNK_DURATION

\* lines 77-84: the segment files ffmpeg writes, numbered from 0 by %03d.
SegmentFiles(d) == { ChunkName(i) : i \in 0..(SegmentCount(d) - 1) }

\* chunks_to_dispatch after step 4: the single chunk_000 of the bypass, or
\* the sorted glob of the segment files.
PlanChunks(d, probeOk) ==
    IF BypassSplit(Probed(d, probeOk))
    THEN << ChunkName(0) >>
    ELSE SortByName(SegmentFiles(d))

\* lines 87-106: the index enumerate() gives a file of the sorted glob, which
\* is the number of files that sort before it.
DispatchIndex(name, files) ==
    Cardinality({ y \in files : NameLess(y, name) })

Range(s) == { s[i] : i \in 1..Len(s) }

\* ------------------------------------------------------------------- state
VARIABLES
    videoDuration,   \* real length of the submitted video (0 before submit)
    status,          \* job document: "status"
    chunks_total,    \* job document: "chunks_total"
    chunks_completed,\* job document: "chunks_completed"
    output_url,      \* job document: "output_url" (FALSE = field absent)
    error_message,   \* job document: "error_message" (FALSE = field absent)
    webhook_url,     \* job document: "webhook_url" (FALSE = None)
    blobs,           \* bucket: the set of blob paths that exist
    final_content,   \* content of output/<job>/final.mp4: sequence of chunk names
    queue,           \* Cloud Tasks: tasks enqueued and not yet acknowledged
    started,         \* tasks delivered at least once
    ingest_runs,     \* ingest handler invocations so far
    chunk_runs,      \* process-chunk handler invocations so far
    stitch_runs,     \* stitch handler invocations so far
    ing,             \* the ingest handler
    wk,              \* the process-chunk handlers, by invocation
    stitch_requests, \* POSTs to /internal/stitch received and not yet handled
    st,              \* the stitch handlers, by invocation
    er,              \* the delete_job handler
    hist,            \* history: counts what the handlers have done
    cmp,             \* the two chunk names compared by a sort, and the result
    plan,            \* a call of the chunk planner: its input and what it planned
    conf,            \* a call of get_config_for_profile: its input and result
    inst             \* one gpu-worker instance processing chunks of several jobs

jobvars   == <<status, chunks_total, chunks_completed, output_url, error_message,
               webhook_url>>
storevars == <<blobs, final_content>>
queuevars == <<queue, started, ingest_runs, chunk_runs, stitch_runs>>
pipevars == <<videoDuration, jobvars, storevars, queuevars, ing, wk,
              stitch_requests, st, er, hist>>
purevars == <<cmp, plan, conf, inst>>
vars == <<pipevars, purevars>>

\* Blob paths under one job's prefixes.
\*   input/<job>/original.mp4, input/<job>/chunk_<n>.mp4,
\*   output/<job>/chunk_<n>.mp4, output/<job>/final.mp4
OriginalBlob   == [dir |-> "input",  file |-> "original", n |-> <<>>]
InputChunk(n)  == [dir |-> "input",  file |-> "chunk",    n |-> n]
OutputChunk(n) == [dir |-> "output", file |-> "chunk",    n |-> n]
FinalBlob      == [dir |-> "output", file |-> "final",    n |-> <<>>]

\* Queue tasks.
NoTask     == [kind |-> "none", chunk_name |-> <<>>, chunk_index |-> 0, run |-> 0]
IngestTask == [kind |-> "ingest", chunk_name |-> <<>>, chunk_index |-> 0, run |-> 0]
ChunkTask(n, i, r) == [kind |-> "chunk", chunk_name |-> n, chunk_index |-> i, run |-> r]

Workers   == 1..MaxWorkers
Stitchers == 1..MaxStitchers

IdleIngest == [pc |-> "idle", chunks |-> <<>>, i |-> 0, path |-> "none"]
\* late: the handler was invoked after a delete_job call had returned.
IdleWorker == [pc |-> "idle", task |-> NoTask, read |-> 0, new_count |-> 0,
               total |-> 0, late |-> FALSE]
\* tmp: the local files the handler has written and not removed:
\*   "input.txt"  /tmp/<job>_input.txt, the concat list
\*   "chunks"     /tmp/chunk_<n>.mp4, the downloaded chunks
\*   "final.mp4"  /tmp/<job>_final.mp4
IdleStitch == [pc |-> "idle", files |-> <<>>, tmp |-> {}]
IdleErase  == [pc |-> "idle", listed |-> {}]

\* History of the run: nothing in the program reads it.
\*   planned   chunks_to_dispatch of the latest plan
\*   commits   committed update_progress transactions
\*   hits      update_progress calls that returned new_count = chunks_total
\*   triggers  POSTs to /internal/stitch attempted
\*   erasures  delete_job calls begun;  erased: one has returned
\*   webhooks  webhook POSTs that reached the caller's endpoint
\*   hook_failures  webhook POSTs that raised (connection error, timeout)
InitHist == [planned |-> <<>>, commits |-> 0, hits |-> 0, triggers |-> 0,
             erasures |-> 0, erased |-> FALSE, webhooks |-> 0,
             hook_failures |-> 0]

NoCompare == [i |-> 0, j |-> 0, less |-> FALSE, done |-> FALSE]

NoPlan == [done |-> FALSE, d |-> 0, probeOk |-> FALSE, path |-> "none",
           total |-> 0, name |-> <<>>, k |-> 0, chunk_index |-> 0]

\* class PrivacyConfig: the field defaults.
PrivacyConfig ==
    [target_faces |-> TRUE, target_plates |-> TRUE, target_logos |-> FALSE,
     target_text |-> FALSE, mode |-> "blur",
     confidence_threshold |-> DefaultConfidence, enable_heuristics |-> TRUE]

\* user_overrides = {} (also what None becomes, lines 34-35): a dict is a
\* record of its recognised keys, each <<>> (key absent) or <<value>>.
NoOverrides ==
    [target_faces |-> <<>>, target_plates |-> <<>>, target_logos |-> <<>>,
     target_text |-> <<>>, mode |-> <<>>, confidence_threshold |-> <<>>]

\* A gpu-worker instance that has been handed, at the same time, the task of
\* every chunk of every job:
\*   pc     where each process_chunk call is
\*   local  the instance's /tmp: for each path, the job whose video the file
\*          holds (0: no such file)
\*   output for each call, the job whose video its uploaded output blob
\*          output/<job>/<chunk_name> holds (0: not uploaded)
Jobs == 1..MaxJobs
Calls == Jobs \X (0..(MaxChunksAll - 1))
LocalInput(n)  == <<"/tmp/", n>>
LocalOutput(n) == <<"/tmp/processed_", n>>
LocalPaths ==
    { LocalInput(ChunkName(i)) : i \in 0..(MaxChunksAll - 1) } \cup
    { LocalOutput(ChunkName(i)) : i \in 0..(MaxChunksAll - 1) }
InitInstance ==
    [pc |-> [c \in Calls |-> "download"],
     local |-> [p \in LocalPaths |-> 0],
     output |-> [c \in Calls |-> 0]]

NoConf == [done |-> FALSE, profile |-> "NONE", user_overrides |-> NoOverrides,
           cfg |-> PrivacyConfig]

Init ==
    /\ inst = InitInstance
    /\ cmp = NoCompare
    /\ plan = NoPlan
    /\ conf = NoConf
    /\ videoDuration = 0
    /\ status = NoJob
    /\ chunks_total = 0
    /\ chunks_completed = 0
    /\ output_url = FALSE
    /\ error_message = FALSE
    /\ webhook_url = FALSE
    /\ blobs = {}
    /\ final_content = <<>>
    /\ queue = {}
    /\ started = {}
    /\ ingest_runs = 0
    /\ chunk_runs = 0
    /\ stitch_runs = 0
    /\ ing = IdleIngest
    /\ wk = [w \in Workers |-> IdleWorker]
    /\ stitch_requests = 0
    /\ st = [s \in Stitchers |-> IdleStitch]
    /\ er = IdleErase
    /\ hist = InitHist


\* ----------------------------------------------------------------- gateway
\* submit_video: upload the original, create the job document, enqueue the
\* ingest task.  A failed enqueue (HTTP 500) leaves the job QUEUED with no task.
Submit(lengths, hooks) ==
    /\ status = NoJob
    /\ \E d \in lengths, enqueued \in BOOLEAN, hook \in hooks :
         /\ videoDuration' = d
         /\ webhook_url' = hook
         /\ queue' = IF enqueued THEN {IngestTask} ELSE {}
    /\ blobs' = {OriginalBlob}
    /\ status' = "QUEUED"
    /\ chunks_total' = 0
    /\ chunks_completed' = 0
    /\ UNCHANGED <<purevars, output_url, error_message, final_content, started,
                   ingest_runs, chunk_runs, stitch_runs, ing, wk,
                   stitch_requests, st, er, hist>>

\* The caller gives no webhook_url (Form(None)), or gives one.
NoWebhook  == {FALSE}
AnyWebhook == BOOLEAN

submit_video == Submit(Durations(MaxChunksAll), NoWebhook)

submit_video_once == Submit(Durations(MaxChunks), AnyWebhook)

\* ------------------------------------------------------------------- queue
\* Cloud Tasks hands a task to its handler; the task stays enqueued until the
\* handler's 2xx response reaches the queue.
StartIngest ==
    /\ ing.pc = "idle"
    /\ ingest_runs < MaxIngestRuns
    /\ ing' = [IdleIngest EXCEPT !.pc = "status"]
    /\ ingest_runs' = ingest_runs + 1
    /\ started' = started \cup {IngestTask}

DeliverIngest ==
    /\ IngestTask \in queue \ started
    /\ StartIngest
    /\ UNCHANGED <<purevars, videoDuration, jobvars, storevars, queue, chunk_runs,
                   stitch_runs, wk, stitch_requests, st, er, hist>>

\* At-least-once delivery: a task not yet acknowledged is delivered again.
RedeliverIngest ==
    /\ IngestTask \in queue \cap started
    /\ StartIngest
    /\ UNCHANGED <<purevars, videoDuration, jobvars, storevars, queue, chunk_runs,
                   stitch_runs, wk, stitch_requests, st, er, hist>>

\* ------------------------------------------------------------------ ingest
\* line 32: job_ref.update({"status": "CHUNKING"})
ingest_video_status ==
    /\ ing.pc = "status"
    /\ status' = "CHUNKING"
    /\ ing' = [ing EXCEPT !.pc = "download"]
    /\ UNCHANGED <<purevars, webhook_url, videoDuration, chunks_total, chunks_completed, output_url,
                   error_message, storevars, queuevars, wk, stitch_requests, st,
                   er, hist>>

\* lines 39-45: the original is missing: FAILED, return (HTTP 200, task done);
\* otherwise it is downloaded.
ingest_video_download ==
    /\ ing.pc = "download"
    /\ IF OriginalBlob \in blobs
       THEN /\ ing' = [ing EXCEPT !.pc = "plan"]
            /\ UNCHANGED <<status, error_message, queue>>
       ELSE /\ status' = "FAILED"
            /\ error_message' = TRUE
            /\ ing' = IdleIngest
            /\ queue' = queue \ {IngestTask}
    /\ UNCHANGED <<purevars, webhook_url, videoDuration, chunks_total, chunks_completed, output_url,
                   storevars, started, ingest_runs, chunk_runs, stitch_runs, wk,
                   stitch_requests, st, er, hist>>

\* lines 47-93: probe, then bypass or split, and upload every chunk.
ingest_video_plan ==
    /\ ing.pc = "plan"
    /\ \E probeOk \in BOOLEAN :
         LET chunks_to_dispatch == PlanChunks(videoDuration, probeOk) IN
         /\ ing' = [ing EXCEPT !.pc = "total", !.chunks = chunks_to_dispatch,
                      !.path = IF BypassSplit(Probed(videoDuration, probeOk))
                               THEN "bypass" ELSE "split"]
         /\ blobs' = blobs \cup { InputChunk(n) : n \in Range(chunks_to_dispatch) }
         /\ hist' = [hist EXCEPT !.planned = chunks_to_dispatch]
    /\ UNCHANGED <<purevars, videoDuration, jobvars, final_content, queuevars, wk,
                   stitch_requests, st, er>>

\* line 84: ffmpeg exits non-zero, subprocess.run(check=True) raises: the
\* handler answers 500, the task stays enqueued, the status stays as it is.
ingest_video_raise ==
    /\ ing.pc = "plan"
    /\ ing' = IdleIngest
    /\ UNCHANGED <<purevars, videoDuration, jobvars, storevars, queuevars, wk,
                   stitch_requests, st, er, hist>>

\* lines 96-97 left out: the dispatch loop starts with chunks_total unwritten.
ingest_video_total_unwritten ==
    /\ ing.pc = "total"
    /\ ing' = [ing EXCEPT !.pc = "dispatch", !.i = 0]
    /\ UNCHANGED <<purevars, videoDuration, jobvars, storevars, queuevars, wk,
                   stitch_requests, st, er, hist>>

\* lines 96-97: job_ref.update({"chunks_total": len(chunks_to_dispatch)})
ingest_video_total ==
    /\ ing.pc = "total"
    /\ chunks_total' = Len(ing.chunks)
    /\ ing' = [ing EXCEPT !.pc = "dispatch", !.i = 0]
    /\ UNCHANGED <<purevars, webhook_url, videoDuration, status, chunks_completed, output_url,
                   error_message, storevars, queuevars, wk, stitch_requests, st,
                   er, hist>>

\* lines 102-121: one turn of the dispatch loop; a create_task that raises is
\* printed and the loop goes on.  outcomes: whether create_task can succeed
\* (TRUE) and whether it can raise (FALSE).
IngestDispatch(outcomes) ==
    /\ ing.pc = "dispatch"
    /\ ing.i < Len(ing.chunks)
    /\ \E created \in outcomes :
         queue' = IF created
                  THEN queue \cup {ChunkTask(ing.chunks[ing.i + 1], ing.i, ingest_runs)}
                  ELSE queue
    /\ ing' = [ing EXCEPT !.i = ing.i + 1]
    /\ UNCHANGED <<purevars, videoDuration, jobvars, storevars, started, ingest_runs,
                   chunk_runs, stitch_runs, wk, stitch_requests, st, er, hist>>

ingest_video_dispatch == IngestDispatch(BOOLEAN)

\* Every create_task succeeds.
ingest_video_dispatch_all == IngestDispatch({TRUE})

\* lines 123-126: return 200, which takes the task off the queue.
ingest_video_return ==
    /\ ing.pc = "dispatch"
    /\ ing.i = Len(ing.chunks)
    /\ ing' = IdleIngest
    /\ queue' = queue \ {IngestTask}
    /\ UNCHANGED <<purevars, videoDuration, jobvars, storevars, started, ingest_runs,
                   chunk_runs, stitch_runs, wk, stitch_requests, st, er, hist>>


\* lines 123-126 when the response comes after the queue's dispatch deadline
\* (download, split and uploads take minutes): the task stays enqueued.
ingest_video_timeout ==
    /\ ing.pc = "dispatch"
    /\ ing.i = Len(ing.chunks)
    /\ ing' = IdleIngest
    /\ UNCHANGED <<purevars, videoDuration, jobvars, storevars, queuevars, wk,
                   stitch_requests, st, er, hist>>

\* ------------------------------------------------------------- gpu worker
\* The queue posts task t to /internal/process-chunk: a new handler
\* invocation takes it.
StartWorker(t) ==
    /\ chunk_runs < MaxWorkers
    /\ chunk_runs' = chunk_runs + 1
    /\ wk' = [wk EXCEPT ![chunk_runs + 1] =
                [IdleWorker EXCEPT !.pc = "status", !.task = t,
                                   !.late = hist.erased]]
    /\ started' = started \cup {t}

DeliverChunk(t) ==
    /\ t \in queue \ started
    /\ t.kind = "chunk"
    /\ StartWorker(t)
    /\ UNCHANGED <<purevars, videoDuration, jobvars, storevars, queue, ingest_runs,
                   stitch_runs, ing, stitch_requests, st, er, hist>>

\* At-least-once delivery: a task not yet acknowledged is delivered again,
\* while an earlier delivery of it is still being handled.
RedeliverChunk(t) ==
    /\ t \in queue \cap started
    /\ t.kind = "chunk"
    /\ StartWorker(t)
    /\ UNCHANGED <<purevars, videoDuration, jobvars, storevars, queue, ingest_runs,
                   stitch_runs, ing, stitch_requests, st, er, hist>>

\* payload.get("chunk_name") of handler w (line 67).
chunk_name(w) == wk[w].task.chunk_name

\* lines 70-71: job_ref.update({"status": "PROCESSING"})
process_chunk_status(w) ==
    /\ wk[w].pc = "status"
    /\ status' = "PROCESSING"
    /\ wk' = [wk EXCEPT ![w].pc = "download"]
    /\ UNCHANGED <<purevars, webhook_url, videoDuration, chunks_total, chunks_completed, output_url,
                   error_message, storevars, queuevars, ing, stitch_requests, st,
                   er, hist>>

\* lines 95-108: the input chunk is downloaded; when it is missing a dummy
\* image is written in its place, which is no video: the handler ends by the
\* return of line 108 (HTTP 200, the task is done) without an upload or a
\* progress update.  (Were the image writer to raise instead, the task would
\* stay enqueued; the handlers that a task still enqueued can start are those
\* of RedeliverChunk.)
process_chunk_download(w) ==
    /\ wk[w].pc = "download"
    /\ IF InputChunk(chunk_name(w)) \in blobs
       THEN /\ wk' = [wk EXCEPT ![w].pc = "upload"]
            /\ UNCHANGED queue
       ELSE /\ wk' = [wk EXCEPT ![w] = IdleWorker]
            /\ queue' = queue \ {wk[w].task}
    /\ UNCHANGED <<purevars, videoDuration, jobvars, storevars, started, ingest_runs,
                   chunk_runs, stitch_runs, ing, stitch_requests, st, er, hist>>

\* lines 104-130: redact the frames and upload output/<job>/<chunk_name>.
process_chunk_upload(w) ==
    /\ wk[w].pc = "upload"
    /\ blobs' = blobs \cup {OutputChunk(chunk_name(w))}
    /\ wk' = [wk EXCEPT ![w].pc = "txn_read"]
    /\ UNCHANGED <<purevars, videoDuration, jobvars, final_content, queuevars, ing,
                   stitch_requests, st, er, hist>>

\* line 140: snapshot = doc_ref.get(transaction=transaction)
update_progress_read(w) ==
    /\ wk[w].pc = "txn_read"
    /\ wk' = [wk EXCEPT ![w].pc = "txn_commit", ![w].read = chunks_completed,
                        ![w].total = chunks_total]
    /\ UNCHANGED <<purevars, videoDuration, jobvars, storevars, queuevars, ing,
                   stitch_requests, st, er, hist>>

\* The commit of a Firestore read-write transaction fails when the document
\* it read has been written since the read.  Of the document's fields only
\* chunks_completed is compared here: a conflict on another field makes the
\* transaction read the same count again.
TxnConflictNever(w) == FALSE

TxnConflict(w) == chunks_completed # wk[w].read

\* A plain read-modify-write: the count read is written back plus one,
\* whatever has been written since.
update_progress_commit_plain(w) ==
    /\ wk[w].pc = "txn_commit"
    /\ chunks_completed' = wk[w].read + 1
    /\ wk' = [wk EXCEPT ![w].pc = "check", ![w].new_count = wk[w].read + 1]
    /\ hist' = [hist EXCEPT !.commits = @ + 1,
                  !.hits = IF wk[w].read + 1 = wk[w].total THEN @ + 1 ELSE @]
    /\ UNCHANGED <<purevars, webhook_url, videoDuration, status, chunks_total, output_url,
                   error_message, storevars, queuevars, ing, stitch_requests,
                   st, er>>

\* lines 141-143 and the commit of @firestore.transactional: write read + 1,
\* or, on a conflict, run update_progress again (three handlers conflict at
\* most twice each, below the five attempts the decorator makes).
update_progress_commit(w) ==
    /\ wk[w].pc = "txn_commit"
    /\ IF TxnConflict(w)
       THEN /\ wk' = [wk EXCEPT ![w].pc = "txn_read"]
            /\ UNCHANGED <<chunks_completed, hist>>
       ELSE /\ chunks_completed' = wk[w].read + 1
            /\ wk' = [wk EXCEPT ![w].pc = "check", ![w].new_count = wk[w].read + 1]
            /\ hist' = [hist EXCEPT !.commits = @ + 1,
                          !.hits = IF wk[w].read + 1 = wk[w].total THEN @ + 1 ELSE @]
    /\ UNCHANGED <<purevars, webhook_url, videoDuration, status, chunks_total, output_url, error_message,
                   storevars, queuevars, ing, stitch_requests, st, er>>

\* line 148: if completed >= total
ShouldTriggerEarly(completed, total) == completed >= total - 1

ShouldTriggerPast(completed, total) == completed > total

ShouldTrigger(completed, total) == completed >= total

\* lines 148-167: POST /internal/stitch when the count has reached the total
\* (the request reaches the orchestrator, or the connection fails and the
\* exception is printed), then return 200, which takes the task off the queue.
\* outcomes: whether the request can arrive (TRUE) and whether it can be
\* lost (FALSE).
ProcessChunkFinish(w, outcomes) ==
    /\ wk[w].pc = "check"
    /\ IF ShouldTrigger(wk[w].new_count, wk[w].total)
       THEN /\ hist' = [hist EXCEPT !.triggers = @ + 1]
            /\ \E received \in outcomes :
                 stitch_requests' = IF received THEN stitch_requests + 1
                                    ELSE stitch_requests
       ELSE UNCHANGED <<hist, stitch_requests>>
    /\ queue' = queue \ {wk[w].task}
    /\ wk' = [wk EXCEPT ![w] = IdleWorker]
    /\ UNCHANGED <<purevars, videoDuration, jobvars, storevars, started, ingest_runs,
                   chunk_runs, stitch_runs, ing, st, er>>

process_chunk_finish(w) == ProcessChunkFinish(w, BOOLEAN)

\* The stitch trigger always arrives.
process_chunk_finish_delivered(w) == ProcessChunkFinish(w, {TRUE})


\* ------------------------------------------------------------------ stitch
\* The orchestrator takes up a received POST /internal/stitch: a new handler
\* invocation.
StartStitch ==
    /\ stitch_requests > 0
    /\ stitch_runs < MaxStitchers
    /\ stitch_runs' = stitch_runs + 1
    /\ stitch_requests' = stitch_requests - 1
    /\ st' = [st EXCEPT ![stitch_runs + 1].pc = "status"]
    /\ UNCHANGED <<purevars, videoDuration, jobvars, storevars, queue, started,
                   ingest_runs, chunk_runs, ing, wk, er, hist>>

\* line 134: update({"status": "STITCHING"})
stitch_video_status(s) ==
    /\ st[s].pc = "status"
    /\ status' = "STITCHING"
    /\ st' = [st EXCEPT ![s].pc = "list"]
    /\ UNCHANGED <<purevars, webhook_url, videoDuration, chunks_total, chunks_completed, output_url,
                   error_message, storevars, queuevars, ing, wk, stitch_requests,
                   er, hist>>

\* line 141: the blobs under output/<job>/ whose name has "chunk_" and ends
\* in ".mp4" (final.mp4 is not one of them).
ChunkBlobNames == { p.n : p \in { q \in blobs : q.dir = "output" /\ q.file = "chunk" } }

\* line 142: chunk_blobs.sort(key=lambda x: x.name)
SortChunkBlobs(S) == SortByName(S)

\* lines 138-152: list, filter, sort and download the processed chunks and
\* write the concat list in that order.
stitch_video_download(s) ==
    /\ st[s].pc = "list"
    /\ st' = [st EXCEPT ![s].pc = "concat",
                        ![s].files = SortChunkBlobs(ChunkBlobNames),
                        ![s].tmp = IF ChunkBlobNames = {} THEN {"input.txt"}
                                   ELSE {"input.txt", "chunks"}]
    /\ UNCHANGED <<purevars, videoDuration, jobvars, storevars, queuevars, ing, wk,
                   stitch_requests, er, hist>>

\* lines 157-166: ffmpeg concatenates the listed files in list order and the
\* result is uploaded as output/<job>/final.mp4.
stitch_video_concat(s) ==
    /\ st[s].pc = "concat"
    /\ st[s].files # <<>>
    /\ final_content' = st[s].files
    /\ blobs' = blobs \cup {FinalBlob}
    /\ st' = [st EXCEPT ![s].pc = "finalize", ![s].tmp = @ \cup {"final.mp4"}]
    /\ UNCHANGED <<purevars, videoDuration, jobvars, queuevars, ing, wk, stitch_requests,
                   er, hist>>

\* The listing (line 138), a download (line 150), ffmpeg (line 162,
\* check=True; always with an empty concat list) or the upload (line 166)
\* raises: nothing catches it, the handler answers 500, the document keeps
\* the status it has and the local files written so far stay (a download
\* raises after line 147 has created the concat list).
stitch_video_raise(s) ==
    /\ st[s].pc \in {"list", "concat"}
    /\ \E opened \in BOOLEAN :
         st' = [st EXCEPT ![s].pc = "idle", ![s].files = <<>>,
                          ![s].tmp = IF st[s].pc = "list" /\ opened
                                     THEN {"input.txt"} ELSE @]
    /\ UNCHANGED <<purevars, videoDuration, jobvars, storevars, queuevars, ing, wk,
                   stitch_requests, er, hist>>

\* lines 171-181: update({"status": "COMPLETED", "output_url": output_url});
\* the url is the signed url or the direct one, never empty.
stitch_video_finalize(s) ==
    /\ st[s].pc = "finalize"
    /\ status' = "COMPLETED"
    /\ output_url' = TRUE
    /\ st' = [st EXCEPT ![s].pc = "webhook"]
    /\ UNCHANGED <<purevars, webhook_url, videoDuration, chunks_total,
                   chunks_completed, error_message, storevars, queuevars, ing,
                   wk, stitch_requests, er, hist>>

\* In place of lines 195-196: a webhook that raises marks the job FAILED.
stitch_video_webhook_fails_job(s) ==
    /\ st[s].pc = "webhook"
    /\ IF webhook_url
       THEN \E posted \in BOOLEAN :
              /\ hist' = IF posted THEN [hist EXCEPT !.webhooks = @ + 1]
                         ELSE [hist EXCEPT !.hook_failures = @ + 1]
              /\ status' = IF posted THEN status ELSE "FAILED"
       ELSE UNCHANGED <<hist, status>>
    /\ st' = [st EXCEPT ![s].pc = "idle", ![s].files = <<>>,
                        ![s].tmp = @ \ {"chunks", "final.mp4"}]
    /\ UNCHANGED <<purevars, webhook_url, videoDuration, chunks_total,
                   chunks_completed, output_url, error_message, storevars,
                   queuevars, ing, wk, stitch_requests, er>>

\* lines 184-203: read webhook_url from the job document; when it is set,
\* POST {job_id, status: COMPLETED, output_url} to it, and print the
\* exception when the POST raises; then remove the downloaded chunks and the
\* local final file (lines 199-201) and return.
stitch_video_webhook(s) ==
    /\ st[s].pc = "webhook"
    /\ IF webhook_url
       THEN \E posted \in BOOLEAN :
              hist' = IF posted THEN [hist EXCEPT !.webhooks = @ + 1]
                      ELSE [hist EXCEPT !.hook_failures = @ + 1]
       ELSE UNCHANGED hist
    /\ st' = [st EXCEPT ![s].pc = "idle", ![s].files = <<>>,
                        ![s].tmp = @ \ {"chunks", "final.mp4"}]
    /\ UNCHANGED <<purevars, videoDuration, jobvars, storevars, queuevars, ing,
                   wk, stitch_requests, er>>

\* ----------------------------------------------------------------- erasure
\* lines 208-210: list the blobs under input/<job> and output/<job>; the
\* job may be erased `calls` times, one call after the other.
DeleteJobList(calls) ==
    /\ status # NoJob
    /\ er.pc = "idle"
    /\ hist.erasures < calls
    /\ er' = [pc |-> "delete", listed |-> blobs]
    /\ hist' = [hist EXCEPT !.erasures = @ + 1]
    /\ UNCHANGED <<purevars, videoDuration, jobvars, storevars, queuevars, ing, wk,
                   stitch_requests, st>>

delete_job_list == DeleteJobList(MaxErasures)

delete_job_list_again == DeleteJobList(MaxErasures + 1)

\* lines 211-212: delete every listed blob.
delete_job_delete ==
    /\ er.pc = "delete"
    /\ blobs' = blobs \ er.listed
    /\ final_content' = IF FinalBlob \in er.listed THEN <<>> ELSE final_content
    /\ er' = [er EXCEPT !.pc = "cancel", !.listed = {}]
    /\ UNCHANGED <<purevars, videoDuration, jobvars, queuevars, ing, wk, stitch_requests,
                   st, hist>>

\* In place of line 214: the job document is written anew, as at creation
\* but CANCELLED.
delete_job_cancel_reset ==
    /\ er.pc = "cancel"
    /\ status' = "CANCELLED"
    /\ chunks_completed' = 0
    /\ er' = IdleErase
    /\ hist' = [hist EXCEPT !.erased = TRUE]
    /\ UNCHANGED <<purevars, webhook_url, videoDuration, chunks_total, output_url,
                   error_message, storevars, queuevars, ing, wk, stitch_requests,
                   st>>

\* line 214: update({"status": "CANCELLED"}), then return.
delete_job_cancel ==
    /\ er.pc = "cancel"
    /\ status' = "CANCELLED"
    /\ er' = IdleErase
    /\ hist' = [hist EXCEPT !.erased = TRUE]
    /\ UNCHANGED <<purevars, webhook_url, videoDuration, chunks_total, chunks_completed, output_url,
                   error_message, storevars, queuevars, ing, wk, stitch_requests,
                   st>>

\* ---------------------------------------------------------- specifications
ChunkTasks == { t \in queue : t.kind = "chunk" }

Ingest ==
    \/ ingest_video_status
    \/ ingest_video_download
    \/ ingest_video_plan
    \/ ingest_video_total
    \/ ingest_video_dispatch
    \/ ingest_video_return

ProcessChunk ==
    \E w \in Workers :
        \/ process_chunk_status(w)
        \/ process_chunk_download(w)
        \/ process_chunk_upload(w)
        \/ update_progress_read(w)
        \/ update_progress_commit(w)
        \/ process_chunk_finish(w)

Stitch ==
    \/ StartStitch
    \/ \E s \in Stitchers :
        \/ stitch_video_status(s)
        \/ stitch_video_download(s)
        \/ stitch_video_concat(s)
        \/ stitch_video_finalize(s)
        \/ stitch_video_webhook(s)

Erase ==
    \/ delete_job_list
    \/ delete_job_delete
    \/ delete_job_cancel

\* The pipeline when every task is delivered once and no call fails.
Pipeline ==
    \/ DeliverIngest
    \/ Ingest
    \/ \E t \in ChunkTasks : DeliverChunk(t)
    \/ ProcessChunk
    \/ Stitch

NextOnce ==
    \/ submit_video_once
    \/ Pipeline

SpecOnce == Init /\ [][NextOnce]_vars

\* The pipeline without failures: every task delivered once, every enqueue
\* succeeds, no tool or store call raises, the stitch trigger arrives, nobody
\* erases the job; and no handler, delivery or request waits for ever.
NextLive ==
    \/ submit_video
    \/ DeliverIngest
    \/ ingest_video_status
    \/ ingest_video_download
    \/ ingest_video_plan
    \/ ingest_video_total
    \/ ingest_video_dispatch_all
    \/ ingest_video_return
    \/ \E t \in ChunkTasks : DeliverChunk(t)
    \/ \E w \in Workers :
         \/ process_chunk_status(w)
         \/ process_chunk_download(w)
         \/ process_chunk_upload(w)
         \/ update_progress_read(w)
         \/ update_progress_commit(w)
         \/ process_chunk_finish_delivered(w)
    \/ Stitch

SpecLive == Init /\ [][NextLive]_vars /\ WF_vars(NextLive)

\* At-least-once delivery of the ingest task and of the chunk tasks.
NextRedeliver ==
    \/ submit_video
    \/ Pipeline
    \/ ingest_video_raise
    \/ ingest_video_timeout
    \/ RedeliverIngest
    \/ \E t \in ChunkTasks : RedeliverChunk(t)

SpecRedeliver == Init /\ [][NextRedeliver]_vars

\* The job is erased, and erased again, while the pipeline runs.
NextErase ==
    \/ submit_video
    \/ Pipeline
    \/ delete_job_list_again
    \/ delete_job_delete
    \/ delete_job_cancel

SpecErase == Init /\ [][NextErase]_vars

\* Redelivered chunk tasks, failing calls and erasure.
Next ==
    \/ submit_video
    \/ Pipeline
    \/ ingest_video_raise
    \/ \E t \in ChunkTasks : RedeliverChunk(t)
    \/ \E s \in Stitchers : stitch_video_raise(s)
    \/ Erase

Spec == Init /\ [][Next]_vars

\* The comparison that both sorts apply (sorted(glob) of line 87 and
\* chunk_blobs.sort of line 142), on the names of two chunks of one job.
RECURSIVE Pow10(_)
Pow10(k) == IF k = 0 THEN 1 ELSE 10 * Pow10(k - 1)

ChunkIndexes ==
    UNION { {Pow10(k) - 1, Pow10(k), Pow10(k) + 1} : k \in 0..(MaxDigits - 1) }

CompareNames ==
    /\ \E i \in ChunkIndexes, j \in ChunkIndexes :
         cmp' = [i |-> i, j |-> j, done |-> TRUE,
                 less |-> NameLess(ChunkName(i), ChunkName(j))]
    /\ UNCHANGED <<pipevars, plan, conf, inst>>

SpecNames == Init /\ [][CompareNames]_vars

\* The chunk planner alone (lines 47-107 of ingest_video): for a video of d
\* seconds and a probe that works or fails, the branch taken, chunks_total,
\* and the name and chunk_index of the k-th chunk file's task.
PlanSeconds ==
    (1..MaxSeconds) \cup { CHUNK_DURATION * Pow10(PadWidth),
                           CHUNK_DURATION * Pow10(PadWidth) + 1 }

ingest_video_planner ==
    /\ ~plan.done
    /\ \E d \in PlanSeconds, probeOk \in BOOLEAN :
         LET bypass == BypassSplit(Probed(d, probeOk))
             files  == IF bypass THEN {ChunkName(0)} ELSE SegmentFiles(d)
         IN  \E k \in 0..(Cardinality(files) - 1) :
               plan' = [done |-> TRUE, d |-> d, probeOk |-> probeOk,
                        path |-> IF bypass THEN "bypass" ELSE "split",
                        total |-> Cardinality(files),
                        name |-> ChunkName(k), k |-> k,
                        chunk_index |-> DispatchIndex(ChunkName(k), files)]
    /\ UNCHANGED <<pipevars, cmp, conf, inst>>

SpecPlan == Init /\ [][ingest_video_planner]_vars

\* ------------------------------------------- one worker instance, many jobs
\* c = <<job, i>>: the process_chunk call for chunk i of job `job`; its
\* chunk_name is ChunkName(i), the same for every job.
\* lines 92-98: local_input = /tmp/<chunk_name>; the job's input chunk is
\* downloaded to it.
worker_download(c) ==
    /\ inst.pc[c] = "download"
    /\ inst' = [inst EXCEPT !.pc[c] = "inference",
                            !.local[LocalInput(ChunkName(c[2]))] = c[1]]
    /\ UNCHANGED <<pipevars, cmp, plan, conf>>

\* lines 105-125: the frames of local_input are read, redacted and written
\* to local_output = /tmp/processed_<chunk_name>; when local_input cannot be
\* opened (the file is gone) the call returns at line 108.
worker_inference(c) ==
    /\ inst.pc[c] = "inference"
    /\ LET read == inst.local[LocalInput(ChunkName(c[2]))] IN
       IF read = 0
       THEN inst' = [inst EXCEPT !.pc[c] = "done"]
       ELSE inst' = [inst EXCEPT !.pc[c] = "upload",
                                 !.local[LocalOutput(ChunkName(c[2]))] = read]
    /\ UNCHANGED <<pipevars, cmp, plan, conf>>

\* lines 128-130: local_output is uploaded as output/<job>/<chunk_name>;
\* upload_from_filename raises when the file is gone.
worker_upload(c) ==
    /\ inst.pc[c] = "upload"
    /\ LET sent == inst.local[LocalOutput(ChunkName(c[2]))] IN
       IF sent = 0
       THEN inst' = [inst EXCEPT !.pc[c] = "done"]
       ELSE inst' = [inst EXCEPT !.pc[c] = "cleanup", !.output[c] = sent]
    /\ UNCHANGED <<pipevars, cmp, plan, conf>>

\* lines 133-134: both local files are removed.
worker_cleanup(c) ==
    /\ inst.pc[c] = "cleanup"
    /\ inst' = [inst EXCEPT !.pc[c] = "done",
                            !.local[LocalInput(ChunkName(c[2]))] = 0,
                            !.local[LocalOutput(ChunkName(c[2]))] = 0]
    /\ UNCHANGED <<pipevars, cmp, plan, conf>>

NextInstance ==
    \E c \in Calls :
        \/ worker_download(c)
        \/ worker_inference(c)
        \/ worker_upload(c)
        \/ worker_cleanup(c)

SpecInstance == Init /\ [][NextInstance]_vars

\* -------------------------------------------------------- policy resolver
\* class ComplianceProfile, and a profile name that is none of its values.
ComplianceProfile == {"NONE", "GDPR", "CCPA", "HIPAA_SAFE_HARBOR"}
ProfileNames == ComplianceProfile \cup {"SOC2"}

\* class AnonymizeMode, and a mode value that is none of its values.
AnonymizeMode == {"blur", "pixelate", "black_box"}
ModeValues == AnonymizeMode \cup {"mosaic"}

\* dict.get(key, default)
Get(d, key, default) == IF d[key] = <<>> THEN default ELSE d[key][1]

\* dict.get(key) used as a condition: None (absent) and False are falsy.
Truthy(d, key) == d[key] # <<>> /\ d[key][1]

\* The override alone: the floor is not applied.
OverrideOnly(a, b) == b

\* max(a, b) of two numbers.
Max(a, b) == IF b > a THEN b ELSE a

\* lines 41-58: the profile's mandates.
ApplyMandates(cfg, profile, user_overrides) ==
    CASE profile = "GDPR" ->
           [cfg EXCEPT !.target_faces = TRUE, !.target_plates = TRUE,
                       !.target_text = TRUE,
                       !.confidence_threshold =
                           Max(GdprFloor, Get(user_overrides, "confidence_threshold", GdprFloor))]
      [] profile = "HIPAA_SAFE_HARBOR" ->
           [cfg EXCEPT !.target_faces = TRUE, !.target_plates = TRUE,
                       !.target_text = TRUE, !.target_logos = TRUE,
                       !.mode = "black_box",
                       !.confidence_threshold =
                           Max(HipaaFloor, Get(user_overrides, "confidence_threshold", HipaaFloor))]
      [] profile = "CCPA" ->
           [cfg EXCEPT !.target_faces = TRUE, !.target_plates = TRUE,
                       !.confidence_threshold =
                           Max(CcpaFloor, Get(user_overrides, "confidence_threshold", CcpaFloor))]
      [] OTHER -> cfg

\* The override's value is assigned, whatever it is.
ApplyTargetsAssigned(cfg, user_overrides) ==
    [cfg EXCEPT !.target_logos = Get(user_overrides, "target_logos", @),
                !.target_text  = Get(user_overrides, "target_text", @)]

\* lines 62-65: targets the user turns on.
ApplyTargets(cfg, user_overrides) ==
    [cfg EXCEPT !.target_logos = IF Truthy(user_overrides, "target_logos") THEN TRUE ELSE @,
                !.target_text  = IF Truthy(user_overrides, "target_text") THEN TRUE ELSE @]

\* The mode is taken from the override as it is, for every profile.
ApplyModeUnchecked(cfg, profile, user_overrides) ==
    IF user_overrides.mode # <<>>
    THEN [cfg EXCEPT !.mode = user_overrides.mode[1]]
    ELSE cfg

\* lines 68-72: AnonymizeMode(value) gives the member with that value and
\* raises ValueError for any other value, which is caught and passed over.
ApplyMode(cfg, profile, user_overrides) ==
    IF profile # "HIPAA_SAFE_HARBOR" /\ user_overrides.mode # <<>>
    THEN IF user_overrides.mode[1] \in AnonymizeMode
         THEN [cfg EXCEPT !.mode = user_overrides.mode[1]]
         ELSE cfg
    ELSE cfg

\* lines 30-74
get_config_for_profile(profile, user_overrides) ==
    ApplyMode(ApplyTargets(ApplyMandates(PrivacyConfig, profile, user_overrides),
                           user_overrides),
              profile, user_overrides)

\* The dicts a caller can pass.
Optional(S) == {<<>>} \cup { <<v>> : v \in S }

ConfidenceValues == { 5 * k : k \in 0..MaxConfidenceSteps }

UserOverrides ==
    [target_faces : Optional({FALSE}), target_plates : Optional({FALSE}),
     target_logos : Optional(BOOLEAN), target_text : Optional(BOOLEAN),
     mode : Optional(ModeValues),
     confidence_threshold : Optional(ConfidenceValues)]

resolve_config ==
    /\ ~conf.done
    /\ \E profile \in ProfileNames, user_overrides \in UserOverrides :
         conf' = [done |-> TRUE, profile |-> profile,
                  user_overrides |-> user_overrides,
                  cfg |-> get_config_for_profile(profile, user_overrides)]
    /\ UNCHANGED <<pipevars, cmp, plan, inst>>

SpecConf == Init /\ [][resolve_config]_vars


\* ================================================================== claims
Busy(w) == wk[w].pc # "idle"

\* The chunk tasks enqueued so far (a task leaves the queue when it is done).
EnqueuedChunkTasks == { t \in queue \cup started : t.kind = "chunk" }

\* chunk_000, chunk_001, ..., ascending by index.
AscendingNames(n) == [k \in 1..n |-> ChunkName(k - 1)]

\* C1: once the status is COMPLETED, FAILED or CANCELLED, no step of any
\* handler changes it.
C1_TerminalAbsorbing ==
    [][(status \in Terminal) => (status' = status)]_vars

\* C2: no step moves the status backwards in the order
\* QUEUED < CHUNKING < PROCESSING < STITCHING < COMPLETED.
StatusRank(x) ==
    CASE x = "QUEUED"     -> 1
      [] x = "CHUNKING"   -> 2
      [] x = "PROCESSING" -> 3
      [] x = "STITCHING"  -> 4
      [] x = "COMPLETED"  -> 5
      [] OTHER            -> 0

C2_StatusForward ==
    [][(StatusRank(status) > 0 /\ StatusRank(status') > 0)
         => (StatusRank(status') >= StatusRank(status))]_vars

\* C3: when each of the N chunk tasks has been handled once and all N
\* progress updates are committed, exactly one update returned
\* new_count = chunks_total and exactly one stitch trigger was sent, by the
\* caller of that update; before that, at most one.
C3_ExactlyOneObservesTotal ==
    /\ hist.hits <= 1
    /\ hist.triggers <= hist.hits
    /\ (/\ chunks_total > 0
        /\ hist.commits = chunks_total
        /\ \A w \in Workers : wk[w].pc # "check")
         => (hist.hits = 1 /\ hist.triggers = 1)

C3_Witness ==
    /\ chunks_total = MaxChunks
    /\ hist.commits = MaxChunks
    /\ hist.hits = 1
    /\ hist.triggers = 1
    /\ \A w \in Workers : ~Busy(w)

\* C4: once ingest has set chunks_total, 0 <= chunks_completed <= chunks_total.
C4_CompletedWithinTotal ==
    chunks_total > 0 => (0 <= chunks_completed /\ chunks_completed <= chunks_total)

\* C5: over a whole execution the stitch endpoint is triggered at most once.
C5_StitchTriggeredAtMostOnce ==
    hist.triggers <= 1

\* C6: chunks_completed equals its initial value 0 plus the number of
\* committed progress transactions.
C6_NoLostIncrement ==
    chunks_completed = hist.commits

\* Two handlers have read the same count, one has committed, and the other
\* is about to commit on its stale read.
C6_Witness ==
    /\ hist.commits >= 2
    /\ \E w \in Workers : wk[w].pc = "txn_commit" /\ wk[w].read < chunks_completed

\* C7: while a chunk task has been enqueued, chunks_total is the number of
\* planned chunks (never the creation value 0) and no step changes it.
C7_TotalSetBeforeDispatch ==
    /\ [](EnqueuedChunkTasks # {}
            => (chunks_total = Len(hist.planned) /\ chunks_total > 0))
    /\ [][(EnqueuedChunkTasks # {}) => (chunks_total' = chunks_total)]_vars

\* The ingest task has been handled a second time and has written
\* chunks_total again while chunk tasks of the first run exist.
C7_Witness ==
    /\ ingest_runs = 2
    /\ ing.pc = "dispatch"
    /\ EnqueuedChunkTasks # {}
    /\ chunks_total = MaxChunksAll

\* C8: a process-chunk call that begins after delete_job has written
\* CANCELLED changes neither the status nor chunks_completed and sends no
\* stitch trigger.
C8_LateCompletionDiscarded ==
    [][\A w \in Workers :
         (wk[w].late /\ wk'[w] # wk[w])
           => /\ status' = status
              /\ chunks_completed' = chunks_completed
              /\ (hist.triggers)' = hist.triggers
    ]_vars

\* C9: of two chunks of a job, the stitcher's sort by name puts the one with
\* the smaller index first, so the concatenation is chunk_000, chunk_001, ...
\* in index order.
C9_StitchOrderIsIndexOrder ==
    (cmp.done /\ cmp.i < cmp.j) => cmp.less

\* C10: no stitch trigger is sent before the N-th progress increment, the
\* N-th increment sends it, and a stitch that ran to its end leaves the job
\* COMPLETED with an output reference.
C10_StitchAfterLastIncrement ==
    /\ (hist.triggers > 0 \/ stitch_requests > 0 \/ stitch_runs > 0)
         => (chunks_total = Len(hist.planned) /\ hist.commits = chunks_total)
    /\ (/\ chunks_total > 0
        /\ hist.commits = chunks_total
        /\ \A w \in Workers : wk[w].pc # "check")
         => hist.triggers = 1
    /\ (stitch_runs > 0 /\ \A s \in Stitchers : st[s].pc = "idle")
         => (/\ status = "COMPLETED"
             /\ output_url = TRUE
             /\ FinalBlob \in blobs
             /\ final_content = AscendingNames(chunks_total))

C10_Witness ==
    /\ chunks_total = MaxChunks
    /\ hist.commits = MaxChunks
    /\ stitch_runs = 1
    /\ status = "COMPLETED"
    /\ output_url = TRUE
    /\ final_content = AscendingNames(MaxChunks)

\* Rounded-up quotient.
Ceil(a, b) == (a + b - 1) \div b

\* C11: for every probed duration d < 300 the planner plans exactly one
\* chunk, named chunk_000, and chunks_total is 1.
C11_ShortVideoOneChunk ==
    (plan.done /\ plan.probeOk /\ plan.d < CHUNK_DURATION)
      => (/\ plan.total = 1
          /\ plan.name = <<0, 0, 0>>
          /\ plan.chunk_index = 0
          /\ PlanChunks(plan.d, TRUE) = << <<0, 0, 0>> >>)

C11_Witness ==
    plan.done /\ plan.probeOk /\ plan.d = CHUNK_DURATION - 1 /\ plan.total = 1

\* C12: when the probe fails the planner takes the whole-source fallback,
\* one chunk and no segmenting split, whatever the length of the video.
C12_ProbeFailureOneChunk ==
    (plan.done /\ ~plan.probeOk)
      => (plan.path = "bypass" /\ plan.total = 1)

\* C13: for every duration d >= 300 the planner plans ceil(d/300) chunks
\* named by their 3-digit zero-padded index, ascending from 0 without gaps,
\* and each task's chunk_index is the index in its chunk name.
C13_LongVideoPlan ==
    (plan.done /\ plan.probeOk /\ plan.d >= CHUNK_DURATION)
      => (/\ plan.total = Ceil(plan.d, CHUNK_DURATION)
          /\ Len(plan.name) = PadWidth
          /\ plan.chunk_index = plan.k)

\* C14: a stitch handler that fails at any step before it has written
\* COMPLETED leaves the job FAILED with an error message recorded.
C14_StitchFailureFails ==
    [][\A s \in Stitchers :
         (st[s].pc \in {"list", "concat"} /\ st'[s].pc = "idle")
           => (status' = "FAILED" /\ error_message' = TRUE)
    ]_vars

\* The planned chunks for which no task was ever enqueued.
NeverEnqueued ==
    { n \in Range(hist.planned) :
        \A t \in EnqueuedChunkTasks : t.chunk_name # n }

\* C15: once ingest has returned with the enqueue of a planned chunk failed
\* (so that chunk is never processed), the job is neither STITCHING nor
\* COMPLETED, whatever happens to the other chunks' tasks.
C15_PartialDispatchNeverCompletes ==
    (chunks_total > 0 /\ ing.pc = "idle" /\ NeverEnqueued # {})
      => status \notin {"STITCHING", "COMPLETED"}

\* C16: a step of an erasure call made after an earlier call has returned,
\* on a job that is as that call left it (CANCELLED, no blob under its
\* prefixes), changes neither the blob store nor the job document; the status
\* stays CANCELLED.
C16_ErasureIdempotent ==
    [][(hist.erased /\ er' # er /\ status = "CANCELLED" /\ blobs = {})
         => (/\ blobs' = blobs
             /\ final_content' = final_content
             /\ jobvars' = jobvars
             /\ status' = "CANCELLED")
    ]_vars

\* The second call is about to write the status, on a job that had made
\* progress before it was erased.
C16_Witness ==
    /\ hist.erased
    /\ hist.erasures = MaxErasures + 1
    /\ er.pc = "cancel"
    /\ status = "CANCELLED"
    /\ blobs = {}
    /\ chunks_completed > 0

\* C17: the webhook is posted only when the job document has been written
\* COMPLETED with its output reference, and neither a webhook that arrives
\* nor one that raises changes the job document.
C17_WebhookAfterCompleted ==
    [][(hist.webhooks' # hist.webhooks \/ hist.hook_failures' # hist.hook_failures)
         => (/\ status = "COMPLETED"
             /\ output_url = TRUE
             /\ jobvars' = jobvars)
    ]_vars

\* A webhook POST has raised and the handler has returned.
C17_Witness ==
    /\ hist.hook_failures = 1
    /\ \A s \in Stitchers : st[s].pc = "idle"
    /\ status = "COMPLETED"
    /\ output_url = TRUE

\* C18: under HIPAA_SAFE_HARBOR the resolved mode is black_box for every
\* override; under every other profile it is the override's mode when that is
\* blur, pixelate or black_box, and blur when the override has no mode or an
\* unrecognised one.
C18_ModeResolution ==
    conf.done =>
      LET o == conf.user_overrides IN
      IF conf.profile = "HIPAA_SAFE_HARBOR"
      THEN conf.cfg.mode = "black_box"
      ELSE IF o.mode \in {<<"blur">>, <<"pixelate">>, <<"black_box">>}
           THEN conf.cfg.mode = o.mode[1]
           ELSE conf.cfg.mode = "blur"

C18_Witness ==
    /\ conf.done
    /\ conf.profile = "GDPR"
    /\ conf.user_overrides.mode = <<"mosaic">>
    /\ conf.cfg.mode = "blur"

\* The confidence floor of a profile that has one (0 for the others).
Floor(profile) ==
    CASE profile = "GDPR" -> 60
      [] profile = "HIPAA_SAFE_HARBOR" -> 70
      [] profile = "CCPA" -> 55
      [] OTHER -> 0

\* C19: for GDPR, HIPAA_SAFE_HARBOR and CCPA the resolved confidence
\* threshold is the floor when there is no override or the override is below
\* the floor, and the override when it is at or above the floor.
C19_ConfidenceFloor ==
    (conf.done /\ conf.profile \in {"GDPR", "HIPAA_SAFE_HARBOR", "CCPA"}) =>
      LET c == conf.user_overrides.confidence_threshold
          f == Floor(conf.profile)
      IN  /\ c = <<>> => conf.cfg.confidence_threshold = f
          /\ (c # <<>> /\ c[1] < f) => conf.cfg.confidence_threshold = f
          /\ (c # <<>> /\ c[1] >= f) => conf.cfg.confidence_threshold = c[1]

C19_Witness ==
    /\ conf.done
    /\ conf.profile = "GDPR"
    /\ conf.user_overrides.confidence_threshold = <<30>>
    /\ conf.cfg.confidence_threshold = 60

\* The targets a profile mandates.
Mandated(profile) ==
    CASE profile = "GDPR" -> {"target_faces", "target_plates", "target_text"}
      [] profile = "HIPAA_SAFE_HARBOR" ->
           {"target_faces", "target_plates", "target_text", "target_logos"}
      [] profile = "CCPA" -> {"target_faces", "target_plates"}
      [] OTHER -> {}

\* C20: in the resolved configuration every target the profile mandates is
\* on, target_faces and target_plates are on under every profile, and every
\* target the override turns on is on, whatever the override says.
C20_MandatedTargetsOn ==
    conf.done =>
      /\ \A t \in Mandated(conf.profile) : conf.cfg[t]
      /\ conf.cfg.target_faces /\ conf.cfg.target_plates
      /\ \A t \in {"target_logos", "target_text"} :
            conf.user_overrides[t] = <<TRUE>> => conf.cfg[t]

C20_Witness ==
    /\ conf.done
    /\ conf.profile = "HIPAA_SAFE_HARBOR"
    /\ conf.user_overrides.target_logos = <<FALSE>>
    /\ conf.user_overrides.target_text = <<FALSE>>
    /\ conf.user_overrides.target_faces = <<FALSE>>
    /\ conf.cfg.target_logos /\ conf.cfg.target_text /\ conf.cfg.target_faces

\* C21: an ingest handler that ends on a failure (before it has planned the
\* chunks) leaves the job FAILED with an error message and has dispatched no
\* chunk task.
C21_IngestFailureFails ==
    [][(ing.pc \in {"download", "plan"} /\ ing'.pc = "idle")
         => (/\ status' = "FAILED"
             /\ error_message' = TRUE
             /\ EnqueuedChunkTasks' = EnqueuedChunkTasks)
    ]_vars

\* C22: whenever the job is COMPLETED its final artifact is the
\* concatenation of the processed output of every planned chunk, each once,
\* in index order.
C22_CompletedHasEveryChunk ==
    status = "COMPLETED" => final_content = AscendingNames(Len(hist.planned))

\* C24: once a delete_job call has returned, no blob exists under the job's
\* input or output prefix.
C24_ErasedStaysErased ==
    hist.erased => blobs = {}

\* C27: under a profile without a confidence floor (NONE or an unknown
\* name) an override above the default 0.4 is the resolved threshold, and an
\* override below 0.4 leaves it 0.4.
C27_UnmandatedConfidence ==
    (/\ conf.done
     /\ conf.profile \notin {"GDPR", "HIPAA_SAFE_HARBOR", "CCPA"}
     /\ conf.user_overrides.confidence_threshold # <<>>)
      => LET c == conf.user_overrides.confidence_threshold[1] IN
         /\ c > 40 => conf.cfg.confidence_threshold = c
         /\ c < 40 => conf.cfg.confidence_threshold = 40

\* C26: a stitch handler that has ended, by its return or by an exception,
\* has left none of its local temporary files behind.
C26_StitchTempFilesRemoved ==
    \A s \in Stitchers : st[s].pc = "idle" => st[s].tmp = {}

\* The gateway has accepted the job: the document is QUEUED and the ingest
\* task is enqueued.
Accepted == status = "QUEUED" /\ IngestTask \in queue

\* C25: without failures and under weak fairness an accepted job becomes
\* CHUNKING, then PROCESSING, then STITCHING, then COMPLETED, and stays
\* COMPLETED.
C25_EventuallyCompleted ==
    /\ Accepted ~> (status = "CHUNKING")
    /\ (status = "CHUNKING") ~> (status = "PROCESSING")
    /\ (status = "PROCESSING") ~> (status = "STITCHING")
    /\ (status = "STITCHING") ~> (status = "COMPLETED")
    /\ Accepted ~> [](status = "COMPLETED")

\* The longest video has gone through the whole pipeline.
C25_Witness ==
    /\ videoDuration = CHUNK_DURATION * (MaxChunksAll - 1) + LastSegment
    /\ status = "COMPLETED"
    /\ queue = {}
    /\ ing.pc = "idle"
    /\ \A w \in Workers : ~Busy(w)
    /\ \A s \in Stitchers : st[s].pc = "idle"

\* C23: the output blob a process_chunk call uploads for its job holds that
\* job's own video, also when chunks of other jobs are processed on the same
\* instance at the same time.
C23_CrossJobIsolation ==
    \A c \in Calls : inst.output[c] \in {0, c[1]}

=============================================================================
